---- MODULE Spec2Model ----
(***************************************************************************)
(* The MCP orchestration engine of lovechild-mcp                           *)
(* (src/lovechild-mcp/src/integrations/mcp-orchestrator.ts): rule          *)
(* matching, single calls with cache and fallback, sequences and           *)
(* workflows.  One process is one in-flight routeTask / executeWorkflow    *)
(* call; an action is the synchronous code between two suspensions of the  *)
(* async functions.                                                        *)
(***************************************************************************)
EXTENDS Integers, Sequences, FiniteSets, TLC

\* ------------------------------------------------------------------ bounds
MaxCalls == 2      \* routeTask invocations in one behaviour
MaxRuns == 1       \* executeWorkflow invocations in one behaviour
MaxTicks == 2      \* advances of the clock in one behaviour
MaxRequests == 1   \* requests of either kind where both kinds are served

\* ------------------------------------------------------- JSON values (any)
\* A value is a tagged pair; an object's body is the sequence of its
\* <<key, value>> properties in insertion order (the order JSON.stringify
\* and object spread follow for string keys).
Undef == <<"undef", "">>
Null == <<"null", "">>
Str(s) == <<"str", s>>
Obj(o) == <<"obj", o>>
Arr(xs) == <<"arr", xs>>

\* JavaScript truthiness of a value (if (x), x || y, !x)
Truthy(v) ==
  CASE v[1] = "undef" -> FALSE
    [] v[1] = "null" -> FALSE
    [] v[1] = "str" -> v[2] # ""
    [] OTHER -> TRUE

\* x || y
OrElse(x, y) == IF Truthy(x) THEN x ELSE y

Has(o, k) == \E i \in 1..Len(o) : o[i][1] = k

\* o[k]; undefined when the property is absent
Get(o, k) ==
  IF Has(o, k) THEN o[CHOOSE i \in 1..Len(o) : o[i][1] = k][2] ELSE Undef

\* o[k] = v: an existing property keeps its position, a new one is appended
Put(o, k, v) ==
  IF Has(o, k)
  THEN [i \in 1..Len(o) |-> IF o[i][1] = k THEN <<k, v>> ELSE o[i]]
  ELSE Append(o, <<k, v>>)

\* { ...a, ...b }
RECURSIVE Spread(_, _)
Spread(a, b) ==
  IF Len(b) = 0 THEN a ELSE Spread(Put(a, b[1][1], b[1][2]), Tail(b))

\* { ...a, ...v } for any value v: only an object contributes properties
SpreadValue(a, v) == IF v[1] = "obj" THEN Spread(a, v[2]) ELSE a

\* the property names of an object
KeysOf(o) == {o[i][1] : i \in 1..Len(o)}

\* JSON.stringify(payload): properties in insertion order, those whose value
\* is undefined left out
JSONstringify(o) == SelectSeq(o, LAMBDA pr : pr[2][1] # "undef")

\* `${mcpServer}:${tool}:${JSON.stringify(payload)}`
CacheKey(mcpServer, tool, payload) == <<mcpServer, tool, JSONstringify(payload)>>

\* ------------------------------------------------------------ configuration
\* The engine reads src/config/mcp-orchestration.yaml once (loadConfiguration);
\* the artifact is not part of the sources, so the registry, rules and
\* workflows below are one configuration of the declared types.

\* an optional string[] field of a rule condition
Unset == [present |-> FALSE, vals |-> {}]
OneOf(S) == [present |-> TRUE, vals |-> S]

\* RoutingRule['condition']; context_required is "true", "false" or "undefined"
Condition(tt, cx, cr, tg) ==
  [task_type |-> tt, complexity |-> cx, context_required |-> cr, target |-> tg]

\* RoutingRule['fallback'] (optional)
NoFallback == [present |-> FALSE, mcp |-> "", tool |-> "", params |-> <<>>]
Fallback(m, t, ps) == [present |-> TRUE, mcp |-> m, tool |-> t, params |-> ps]

\* one element of RoutingRule['sequence']
SeqStep(m, t, ps, pass, prev) ==
  [mcp |-> m, tool |-> t, params |-> ps,
   pass_result_to_next |-> pass, use_previous_result |-> prev]

\* a RoutingRule with primary_mcp/tool (an absent string is "")
SingleRule(n, c, m, t, ps, fb) ==
  [name |-> n, condition |-> c, hasSequence |-> FALSE, sequence |-> <<>>,
   primary_mcp |-> m, tool |-> t, params |-> ps, fallback |-> fb]

\* a RoutingRule with a sequence
SequenceRule(n, c, sq) ==
  [name |-> n, condition |-> c, hasSequence |-> TRUE, sequence |-> sq,
   primary_mcp |-> "", tool |-> "", params |-> <<>>, fallback |-> NoFallback]

\* the registry: provider ids that have an entry in mcp_servers
mcp_servers == {"Perplexity", "Linear", "POE", "Context7"}

RuleResearch ==
  SingleRule("research_queries", Condition(OneOf({"research"}), Unset, "undefined", Unset),
             "Perplexity", "perplexity_ask", << <<"mode", Str("ask")>> >>,
             Fallback("POE", "ask_alt", << <<"mode", Str("alt")>> >>))

\* primary provider missing from the registry, fallback registered
RuleDeep ==
  SingleRule("deep_research",
             Condition(OneOf({"research"}), OneOf({"high"}), "undefined", Unset),
             "Tavily", "search", <<>>,
             Fallback("Perplexity", "perplexity_ask", << <<"mode", Str("ask")>> >>))

RuleCodegen ==
  SequenceRule("code_generation",
               Condition(OneOf({"code_generation"}), Unset, "undefined", Unset),
               << SeqStep("Context7", "get_library_docs", <<>>, TRUE, FALSE),
                  SeqStep("POE", "generate", <<>>, FALSE, TRUE) >>)

\* a sequence of four steps: the first two merge their data into the
\* payload, the first, second and fourth ask for the previous result, the
\* third sets no flag, the fourth has an id of its own in its params
RulePipeline ==
  SequenceRule("pipeline",
               Condition(OneOf({"code_generation"}), Unset, "undefined", Unset),
               << SeqStep("Context7", "get_library_docs", <<>>, TRUE, TRUE),
                  SeqStep("Perplexity", "perplexity_research", <<>>, TRUE, TRUE),
                  SeqStep("POE", "generate", <<>>, FALSE, FALSE),
                  SeqStep("Linear", "create_issue", << <<"id", Str("fixed")>> >>,
                          FALSE, TRUE) >>)

\* primary and fallback providers both missing from the registry
RuleDeploy ==
  SingleRule("deployment", Condition(OneOf({"deployment"}), Unset, "undefined", Unset),
             "Netlify", "deploy", <<>>, Fallback("Render", "deploy", <<>>))

\* a WorkflowStep; an absent condition or use_issue_from is "", an absent
\* use_context_from is <<>>
WfStep(n, m, t, ps, cond, ctx, iss) ==
  [name |-> n, mcp |-> m, tool |-> t, params |-> ps, condition |-> cond,
   use_context_from |-> ctx, use_issue_from |-> iss]

\* config.workflows
WorkflowNames == {"bug_fix_workflow", "deployment_pipeline"}

workflows ==
  [w \in WorkflowNames |->
     IF w = "bug_fix_workflow"
     THEN << WfStep("analyze", "Perplexity", "perplexity_research", <<>>, "", <<>>, ""),
             WfStep("create_issue", "Linear", "create_issue",
                    << <<"team", Str("Kijko")>> >>, "", <<>>, ""),
             WfStep("get_context", "Context7", "get_library_docs",
                    << <<"repository", Str("main")>> >>, "context_needed", <<>>, ""),
             WfStep("generate_fix", "POE", "generate", <<>>, "",
                    <<"analyze", "get_context">>, ""),
             WfStep("complete", "Linear", "update_issue",
                    << <<"id", Str("unassigned")>> >>, "", <<>>, "create_issue") >>
     ELSE << WfStep("get_technical_context", "Context7", "get_library_docs", <<>>,
                    "library_needed", <<>>, ""),
             WfStep("verify_docs", "Context7", "get_library_docs", <<>>,
                    "docs_changed", <<>>, ""),
             WfStep("deploy", "Vercel", "deploy_to_vercel", <<>>, "", <<>>,
                    "verify_docs") >>]

\* conditions over every field a rule may declare
MatchConditions ==
  { Condition(tt, cx, cr, tg) :
      tt \in {Unset, OneOf({"research"})}, cx \in {Unset, OneOf({"high"})},
      cr \in {"undefined", "true", "false"}, tg \in {Unset, OneOf({"vercel"})} }

\* a single rule with the condition c
RuleProbe(c) == SingleRule("probe", c, "Perplexity", "perplexity_ask", <<>>, NoFallback)

\* routing_rules: the declaration orders a behaviour may be configured with
RuleOrders ==
  { <<RuleResearch, RuleDeep, RuleCodegen, RuleDeploy>>,
    <<RuleDeep, RuleResearch, RuleCodegen, RuleDeploy>> }

\* ------------------------------------------------------------------ inputs
\* TaskContext (the fields matchesCondition reads)
Task(tt, cx, cr, tg) ==
  [task_type |-> tt, complexity |-> cx, context_required |-> cr, target |-> tg]

TaskSet ==
  { Task("research", "high", "undefined", "undefined"),
    Task("research", "low", "undefined", "undefined"),
    Task("code_generation", "undefined", "undefined", "undefined"),
    Task("deployment", "undefined", "undefined", "undefined"),
    Task("chat", "undefined", "undefined", "undefined") }

\* payloads as the route_task tool builds them: description, metadata
RoutePayloads ==
  { << <<"description", Str("d")>>, <<"metadata", Undef>> >>,
    << <<"description", Str("d")>>, <<"metadata", Obj(<< <<"mode", Str("x")>> >>)>> >> }

\* task contexts over every field matchesCondition reads, as the route_task
\* tool passes them on: an optional argument not given is absent
MatchTasks ==
  { Task(tt, cx, cr, tg) :
      tt \in {"research", "chat"}, cx \in {"undefined", "low", "high"},
      cr \in {"undefined", "true", "false"},
      tg \in {"undefined", "", "vercel", "netlify"} }

\* payloads a caller of routeTask may pass: those of the route_task tool,
\* and one that carries an id and a previousResult of its own
SequencePayloads ==
  RoutePayloads \cup
    { << <<"description", Str("d")>>, <<"id", Str("own")>>,
         <<"previousResult", Str("mine")>> >> }

\* workflow names a caller may pass, one of them undeclared
WorkflowInputs == WorkflowNames \cup {"no_such_workflow"}

\* payloads as the execute_workflow tool builds them: description, library,
\* codebase (an argument not given is a property whose value is undefined)
WorkflowPayloads ==
  { << <<"description", Str("d")>>, <<"library", Undef>>, <<"codebase", Undef>> >>,
    << <<"description", Str("d")>>, <<"library", Undef>>, <<"codebase", Str("repo")>> >>,
    << <<"description", Str("d")>>, <<"library", Str("react")>>, <<"codebase", Undef>> >> }

\* what the capability channel may resolve with
DataSet == { Obj(<< <<"id", Str("ISS-1")>> >>), Null }

\* per tool: the tools whose output a later step reads resolve with either
\* value, the others with the first
ChannelData(tool) ==
  IF tool \in {"perplexity_research", "create_issue", "get_library_docs"}
  THEN DataSet
  ELSE { Obj(<< <<"id", Str("ISS-1")>> >>) }

\* the clock advances in steps of this many milliseconds
TickSteps == {500}

\* ------------------------------------------------------------------- state
VARIABLES
  config,          \* this.config: routing_rules, integration_settings
  now,             \* Date.now()
  resultCache,     \* this.resultCache: set of [key, result, timestamp]
  workflowStates,  \* this.workflowStates: set of [id, results, issues]
  frame,           \* per process: the in-flight entry-point call, with the
                   \* log of its executeSingleCall invocations in order
  settled,         \* per cache key, the channel's latest settled invocation:
                   \* set of [key, ok, data, time]
  calls,           \* routeTask invocations started so far
  runs,            \* executeWorkflow invocations started so far
  ticks            \* clock advances so far

vars == <<config, now, resultCache, workflowStates, frame, settled, calls, runs, ticks>>

\* the entry-point calls a behaviour has: one after the other in one
\* process, or one in each of the processes of ConcurrentProcs
Procs == DOMAIN frame

ConcurrentProcs == {1, 2}

\* MCPCallResult; an absent data is Undef, an absent error "", an absent
\* executionTime -1
CallResult(ok, d, e, t, m, tl) ==
  [success |-> ok, data |-> d, error |-> e, executionTime |-> t,
   mcp_server |-> m, tool |-> tl]

NoResult == CallResult(FALSE, Undef, "", -1, "", "")

NoCall ==
  [mcp |-> "", tool |-> "", payload |-> <<>>, fallback |-> NoFallback,
   startTime |-> 0, logIx |-> 0, step |-> 0]

NoTask == Task("", "undefined", "undefined", "undefined")

\* what is remembered of the request a process served before the current
\* one: its arguments, its outcome, how many channel calls it caused and
\* when the last of them settled
NoPrev ==
  [present |-> FALSE, task |-> NoTask, input |-> <<>>, success |-> FALSE,
   invoked |-> 0, finish |-> 0]

IdleFrame ==
  [pc |-> "idle", kind |-> "none", no |-> 0, task |-> NoTask, input |-> <<>>,
   prev |-> NoPrev,
   rule |-> 0, call |-> NoCall, ret |-> NoResult, err |-> "", log |-> <<>>,
   seq |-> [i |-> 0, results |-> <<>>, currentPayload |-> <<>>],
   wf |-> [name |-> "", id |-> 0, i |-> 0, payload |-> <<>>, results |-> <<>>,
           threw |-> FALSE],
   out |-> [success |-> FALSE, results |-> <<>>, result |-> NoResult, workflowId |-> 0]]

\* the state after construction and loadConfiguration, with the processes
\* of the set procs
InitFor(procs) ==
  /\ config \in [routing_rules : RuleOrders,
                 result_caching : BOOLEAN,
                 cache_duration : {1}]
  /\ now = 0
  /\ resultCache = {}
  /\ workflowStates = {}
  /\ frame = [p \in procs |-> IdleFrame]
  /\ settled = {}
  /\ calls = 0
  /\ runs = 0
  /\ ticks = 0

Init == InitFor({1})

\* ------------------------------------------------------------ rule matcher
\* variant of matchesCondition: a declared complexity or target constraint
\* is tested against a task that supplies none
matchesConditionStrict(condition, taskContext) ==
  IF condition.task_type.present
     /\ taskContext.task_type \notin condition.task_type.vals THEN FALSE
  ELSE IF condition.complexity.present
     /\ taskContext.complexity \notin condition.complexity.vals THEN FALSE
  ELSE IF condition.context_required # "undefined"
     /\ condition.context_required # taskContext.context_required THEN FALSE
  ELSE IF condition.target.present
     /\ taskContext.target \notin condition.target.vals THEN FALSE
  ELSE TRUE

\* variant of matchesCondition: a task without the context_required flag
\* counts as one whose flag is false
matchesConditionLoose(condition, taskContext) ==
  IF condition.task_type.present
     /\ taskContext.task_type \notin condition.task_type.vals THEN FALSE
  ELSE IF condition.complexity.present /\ taskContext.complexity # "undefined"
     /\ taskContext.complexity \notin condition.complexity.vals THEN FALSE
  ELSE IF condition.context_required # "undefined"
     /\ condition.context_required #
          (IF taskContext.context_required = "undefined" THEN "false"
           ELSE taskContext.context_required) THEN FALSE
  ELSE IF condition.target.present /\ taskContext.target \notin {"undefined", ""}
     /\ taskContext.target \notin condition.target.vals THEN FALSE
  ELSE TRUE

\* matchesCondition(condition, taskContext); a string is falsy when it is
\* absent or empty
matchesCondition(condition, taskContext) ==
  IF condition.task_type.present
     /\ taskContext.task_type \notin condition.task_type.vals THEN FALSE
  ELSE IF condition.complexity.present /\ taskContext.complexity # "undefined"
     /\ taskContext.complexity \notin condition.complexity.vals THEN FALSE
  ELSE IF condition.context_required # "undefined"
     /\ condition.context_required # taskContext.context_required THEN FALSE
  ELSE IF condition.target.present /\ taskContext.target \notin {"undefined", ""}
     /\ taskContext.target \notin condition.target.vals THEN FALSE
  ELSE TRUE

\* variant of findMatchingRule: the loop keeps the last match
findLastMatchingRule(rules, taskContext) ==
  IF \E i \in 1..Len(rules) : matchesCondition(rules[i].condition, taskContext)
  THEN CHOOSE i \in 1..Len(rules) :
         /\ matchesCondition(rules[i].condition, taskContext)
         /\ \A j \in (i + 1)..Len(rules) : ~matchesCondition(rules[j].condition, taskContext)
  ELSE 0

\* variant of findMatchingRule: the first rule is the default when none matches
findMatchingRuleOrFirst(rules, taskContext) ==
  IF \E i \in 1..Len(rules) : matchesCondition(rules[i].condition, taskContext)
  THEN CHOOSE i \in 1..Len(rules) :
         /\ matchesCondition(rules[i].condition, taskContext)
         /\ \A j \in 1..(i - 1) : ~matchesCondition(rules[j].condition, taskContext)
  ELSE 1

\* index of the rule findMatchingRule returns, 0 for null
findMatchingRule(rules, taskContext) ==
  IF \E i \in 1..Len(rules) : matchesCondition(rules[i].condition, taskContext)
  THEN CHOOSE i \in 1..Len(rules) :
         /\ matchesCondition(rules[i].condition, taskContext)
         /\ \A j \in 1..(i - 1) : ~matchesCondition(rules[j].condition, taskContext)
  ELSE 0

\* ------------------------------------------------------------ result cache
\* variant of Fresh: the duration in seconds compared with milliseconds
FreshUnscaled(e, t, duration) == t - e.timestamp < duration

\* variant of Fresh: an entry as old as the duration still counts
FreshInclusive(e, t, duration) == t - e.timestamp <= duration * 1000

\* cached && Date.now() - cached.timestamp < cache_duration * 1000
Fresh(e, t, duration) == t - e.timestamp < duration * 1000

\* this.resultCache.get(cacheKey) as a set: empty when there is no entry
CacheGet(cache, key) == {e \in cache : e.key = key}

\* variant of CacheSet: the entry is written without the result's data
CacheSetNoData(cache, key, result, t) ==
  {e \in cache : e.key # key} \cup {[key |-> key, result |-> Null, timestamp |-> t]}

\* variant of CacheSet: an entry already stored for the key is kept
CacheSetKeepFirst(cache, key, result, t) ==
  IF \E e \in cache : e.key = key THEN cache
  ELSE cache \cup {[key |-> key, result |-> result, timestamp |-> t]}

\* this.resultCache.set(cacheKey, { result, timestamp })
CacheSet(cache, key, result, t) ==
  {e \in cache : e.key # key} \cup {[key |-> key, result |-> result, timestamp |-> t]}

\* ------------------------------------------------------------ call executor
\* warpMCPNameMap[mcpServerName] || mcpServerName.toLowerCase()
ActualMCPName(mcpServerName) ==
  CASE mcpServerName = "Perplexity" -> "perplexity-ask"
    [] mcpServerName = "Linear" -> "linear"
    [] mcpServerName = "POE" -> "Dart"
    [] mcpServerName = "Context7" -> "Context7"
    [] mcpServerName = "Vercel" -> "vercel"
    [] OTHER -> mcpServerName

\* variant of NestedFallback: the nested call is given the fallback again
NestedFallbackAgain(fallback) == fallback

\* the fallback handed to the nested executeSingleCall of the catch block
NestedFallback(fallback) == NoFallback

\* executeSingleCall up to its first suspension, for process p whose frame
\* (already advanced by the caller) is f: the cache lookup, then callMCPTool
\* up to the channel invocation.  Sets frame'.
BeginCall(p, f, mcpServer, tool, payload, fallback, step, nested) ==
  LET cacheKey == CacheKey(mcpServer, tool, payload)
      cached == CacheGet(resultCache, cacheKey)
      hit == /\ config.result_caching
             /\ \E e \in cached : Fresh(e, now, config.cache_duration)
      known == mcpServer \in mcp_servers
      outcome == IF hit THEN "hit" ELSE IF known THEN "invoked" ELSE "threw"
      entry == [proc |-> p, no |-> f.no, step |-> step, mcp |-> mcpServer,
                tool |-> tool, payload |-> payload, key |-> cacheKey,
                channel |-> ActualMCPName(mcpServer),
                fallback |-> fallback.present, nested |-> nested,
                begin |-> now, outcome |-> outcome, finished |-> hit,
                cachedAge |-> IF cached = {} THEN -1
                              ELSE now - (CHOOSE e \in cached : TRUE).timestamp,
                success |-> hit,
                data |-> IF hit THEN (CHOOSE e \in cached : TRUE).result ELSE Undef,
                finish |-> now]
      call == [mcp |-> mcpServer, tool |-> tool, payload |-> payload,
               fallback |-> fallback, startTime |-> now,
               logIx |-> Len(f.log) + 1, step |-> step]
      g == [f EXCEPT !.call = call, !.log = Append(f.log, entry)]
  IN frame' = [frame EXCEPT ![p] =
       IF hit
       THEN [g EXCEPT !.pc = "resume",
                      !.ret = CallResult(TRUE, entry.data, "", 0, mcpServer, tool)]
       ELSE IF known
       THEN [g EXCEPT !.pc = "await"]
       ELSE [g EXCEPT !.pc = "catch",
                      !.err = "MCP server not found in configuration"]]

\* the channel settles: callMCPTool turns the outcome into a result,
\* executeSingleCall caches a success and records the execution time
Settle(p) ==
  /\ frame[p].pc = "await"
  /\ \E ok \in BOOLEAN, d \in DataSet :
       LET c == frame[p].call
           result == IF ok
                     THEN CallResult(TRUE, d, "", now - c.startTime, c.mcp, c.tool)
                     ELSE CallResult(FALSE, Undef, "channel rejected",
                                     now - c.startTime, c.mcp, c.tool)
       IN /\ ok => d \in ChannelData(c.tool)
          /\ (~ok) => d = Null
          /\ resultCache' =
               IF result.success /\ config.result_caching
               THEN CacheSet(resultCache, CacheKey(c.mcp, c.tool, c.payload), d, now)
               ELSE resultCache
          /\ frame' = [frame EXCEPT ![p].pc = "resume", ![p].ret = result,
                                    ![p].log[c.logIx].finished = TRUE,
                                    ![p].log[c.logIx].success = ok,
                                    ![p].log[c.logIx].data = result.data,
                                    ![p].log[c.logIx].finish = now]
          /\ settled' =
               {h \in settled : h.key # CacheKey(c.mcp, c.tool, c.payload)}
               \cup {[key |-> CacheKey(c.mcp, c.tool, c.payload), ok |-> ok,
                      data |-> d, time |-> now]}
  /\ UNCHANGED <<config, now, workflowStates, calls, runs, ticks>>

\* variant of Catch: the catch block throws the error on to its caller
CatchRethrow(p) ==
  /\ frame[p].pc = "catch"
  /\ frame' = [frame EXCEPT ![p].pc = "thrown"]
  /\ UNCHANGED <<config, now, resultCache, workflowStates, settled, calls, runs, ticks>>

\* the catch block of executeSingleCall after callMCPTool threw
Catch(p) ==
  /\ frame[p].pc = "catch"
  /\ LET c == frame[p].call
     IN IF c.fallback.present
        THEN BeginCall(p, frame[p], c.fallback.mcp, c.fallback.tool,
                       Spread(c.payload, c.fallback.params),
                       NestedFallback(c.fallback), c.step, TRUE)
        ELSE frame' = [frame EXCEPT
               ![p].pc = "resume",
               ![p].ret = CallResult(FALSE, Undef, frame[p].err,
                                     now - c.startTime, c.mcp, c.tool)]
  /\ UNCHANGED <<config, now, resultCache, workflowStates, settled, calls, runs, ticks>>

\* the result a finished entry point hands back
Done(f, ok, results, result, id) ==
  [f EXCEPT !.pc = "done",
            !.out = [success |-> ok, results |-> results, result |-> result,
                     workflowId |-> id]]

\* variant of SequenceResult: only the last step's output is returned
SequenceResultLast(results) ==
  CallResult(TRUE, Arr(SubSeq(results, Len(results), Len(results))), "", -1,
             "sequence", "multi-step")

\* the result executeSequence returns after its last step
SequenceResult(results) ==
  CallResult(TRUE, Arr(results), "", -1, "sequence", "multi-step")

\* variant of SequenceStops: a failed step does not end the sequence
SequenceNeverStops(result) == FALSE

\* if (!result.success) return result
SequenceStops(result) == ~result.success

\* variant of MergeResult: a step's data is not merged into the payload
MergeResultNone(step, currentPayload, data) == currentPayload

\* if (step.pass_result_to_next) currentPayload = {...currentPayload, ...result.data}
MergeResult(step, currentPayload, data) ==
  IF step.pass_result_to_next THEN SpreadValue(currentPayload, data)
  ELSE currentPayload

\* variant of InjectPrevious: the first result of the sequence is injected
InjectPreviousFirst(step, results, currentPayload) ==
  IF step.use_previous_result /\ Len(results) > 0
  THEN Put(currentPayload, "previousResult", results[1])
  ELSE currentPayload

\* if (step.use_previous_result && results.length > 0)
\*   currentPayload.previousResult = results[results.length - 1]
\* the assignment is to currentPayload itself, which the loop keeps
InjectPrevious(step, results, currentPayload) ==
  IF step.use_previous_result /\ Len(results) > 0
  THEN Put(currentPayload, "previousResult", results[Len(results)])
  ELSE currentPayload

\* executeSequence at the top of loop iteration i (1-based), run up to the
\* suspension of that step's executeSingleCall, or to the final return
SeqIterate(p, f, sequence, i, results, currentPayload) ==
  IF i <= Len(sequence)
  THEN LET step == sequence[i]
           cp == InjectPrevious(step, results, currentPayload)
           g == [f EXCEPT !.seq = [i |-> i, results |-> results, currentPayload |-> cp]]
       IN BeginCall(p, g, step.mcp, step.tool, Spread(cp, step.params),
                    NoFallback, i, FALSE)
  ELSE frame' = [frame EXCEPT ![p] =
         Done([f EXCEPT !.seq = [i |-> i, results |-> results,
                                 currentPayload |-> currentPayload]],
              TRUE, <<>>, SequenceResult(results), 0)]

\* routeTask(taskContext, payload) up to its first suspension, as request
\* number no of process p, whose frame starts as f0.  Sets frame'.
RouteTaskCall(p, f0, no, taskContext, payload) ==
  LET ix == findMatchingRule(config.routing_rules, taskContext)
      f == [f0 EXCEPT !.kind = "single", !.no = no,
                      !.task = taskContext, !.input = payload, !.rule = ix]
  IN IF ix = 0
     THEN frame' = [frame EXCEPT ![p] =
            Done(f, FALSE, <<>>,
                 CallResult(FALSE, Undef, "No routing rule found", -1, "", ""), 0)]
     ELSE LET matchingRule == config.routing_rules[ix]
          IN IF matchingRule.hasSequence
             THEN SeqIterate(p, [f EXCEPT !.kind = "sequence"],
                             matchingRule.sequence, 1, <<>>, payload)
             ELSE IF matchingRule.primary_mcp # "" /\ matchingRule.tool # ""
             THEN BeginCall(p, f, matchingRule.primary_mcp, matchingRule.tool,
                            Spread(payload, matchingRule.params),
                            matchingRule.fallback, 0, FALSE)
             ELSE frame' = [frame EXCEPT ![p] =
                    Done(f, FALSE, <<>>,
                         CallResult(FALSE, Undef, "Invalid routing rule configuration",
                                    -1, "", ""), 0)]

\* a call of routeTask with any task context and payload
RouteTask(p) ==
  /\ frame[p].pc \in {"idle", "done"}
  /\ calls < MaxCalls
  /\ \E taskContext \in TaskSet, payload \in RoutePayloads :
       RouteTaskCall(p, IdleFrame, calls + 1, taskContext, payload)
  /\ calls' = calls + 1
  /\ UNCHANGED <<config, now, resultCache, workflowStates, settled, runs, ticks>>

\* logger.generateCorrelationId(): lc_<time>_<random>, a new value for each
\* request
CorrelationIds == <<"lc_1", "lc_2", "lc_3", "lc_4">>

generateCorrelationId(n) == Str(CorrelationIds[n])

\* number of channel invocations in a log of calls
Invocations(log) ==
  Cardinality({k \in 1..Len(log) : log[k].outcome = "invoked"})

\* the summary of a returned request kept for the next one
Summary(f) ==
  IF f.pc # "done" THEN NoPrev
  ELSE [present |-> TRUE, task |-> f.task, input |-> f.input,
        success |-> f.out.success, invoked |-> Invocations(f.log),
        finish |-> IF Len(f.log) = 0 THEN 0 ELSE f.log[Len(f.log)].finish]

\* a route_task tool request: the server gives the request a correlation
\* id, the handler puts it into the payload after description and metadata
\* and calls routeTask
RouteTaskTool(p) ==
  /\ frame[p].pc \in {"idle", "done"}
  /\ calls < MaxCalls
  /\ \E taskContext \in TaskSet, args \in RoutePayloads :
       LET correlationId == generateCorrelationId(calls + 1)
           payload == Append(args, <<"correlationId", correlationId>>)
       IN RouteTaskCall(p, [IdleFrame EXCEPT !.prev = Summary(frame[p])],
                        calls + 1, taskContext, payload)
  /\ calls' = calls + 1
  /\ UNCHANGED <<config, now, resultCache, workflowStates, settled, runs, ticks>>

\* variant of ContinueRoute: a failed call is made again
ContinueRouteRetry(p) ==
  /\ frame[p].pc = "resume"
  /\ frame[p].kind = "single"
  /\ IF frame[p].ret.success
     THEN frame' = [frame EXCEPT ![p] =
            Done(frame[p], TRUE, <<>>, frame[p].ret, 0)]
     ELSE BeginCall(p, frame[p], frame[p].call.mcp, frame[p].call.tool,
                    frame[p].call.payload, NoFallback, 0, FALSE)
  /\ UNCHANGED <<config, now, resultCache, workflowStates, settled, calls, runs, ticks>>

\* routeTask resumes with the result of its executeSingleCall and returns it
ContinueRoute(p) ==
  /\ frame[p].pc = "resume"
  /\ frame[p].kind = "single"
  /\ frame' = [frame EXCEPT ![p] = Done(frame[p], frame[p].ret.success, <<>>, frame[p].ret, 0)]
  /\ UNCHANGED <<config, now, resultCache, workflowStates, settled, calls, runs, ticks>>

\* executeSequence resumes with a step's result: first failure is returned,
\* otherwise the data is collected and the loop goes on; routeTask returns
\* what executeSequence returns
ContinueSequence(p) ==
  /\ frame[p].pc = "resume"
  /\ frame[p].kind = "sequence"
  /\ LET f == frame[p]
         sequence == config.routing_rules[f.rule].sequence
         step == sequence[f.seq.i]
         result == f.ret
         results == Append(f.seq.results, result.data)
         currentPayload == MergeResult(step, f.seq.currentPayload, result.data)
     IN IF SequenceStops(result)
        THEN frame' = [frame EXCEPT ![p] = Done(f, FALSE, <<>>, result, 0)]
        ELSE SeqIterate(p, f, sequence, f.seq.i + 1, results, currentPayload)
  /\ UNCHANGED <<config, now, resultCache, workflowStates, settled, calls, runs, ticks>>

\* ---------------------------------------------------------- workflow engine
\* evaluateCondition(condition, payload), as the truth value the caller tests
evaluateCondition(condition, payload) ==
  CASE condition = "library_needed" ->
         Truthy(OrElse(Get(payload, "library"), Get(payload, "dependencies")))
    [] condition = "context_needed" ->
         Truthy(OrElse(Get(payload, "codebase"), Get(payload, "repository")))
    [] condition = "library_research_needed" ->
         Truthy(OrElse(Get(payload, "library_research"), Get(payload, "api_docs")))
    [] OTHER -> TRUE

optionalSteps == {"get_context", "get_codebase_context", "get_technical_context"}

\* variant of isOptionalStep: every step is optional
AlwaysOptional(step) == TRUE

\* variant of isOptionalStep: no step is optional
NeverOptional(step) == FALSE

isOptionalStep(step) == step.name \in optionalSteps

\* variant of Skipped: a condition never skips a step
SkippedNever(step, payload) == FALSE

\* variant of Skipped: the condition is evaluated on the step's payload,
\* the incoming payload with the step's params
SkippedOnStepPayload(step, payload) ==
  step.condition # "" /\ ~evaluateCondition(step.condition, Spread(payload, step.params))

\* step.condition && !this.evaluateCondition(step.condition, payload)
Skipped(step, payload) ==
  step.condition # "" /\ ~evaluateCondition(step.condition, payload)

\* variant of allSuccessful: the last result decides
LastSuccessful(results) == Len(results) = 0 \/ results[Len(results)].success

\* variant of allSuccessful: one successful result is enough
SomeSuccessful(results) == \E k \in 1..Len(results) : results[k].success

\* results.every(r => r.success)
allSuccessful(results) == \A k \in 1..Len(results) : results[k].success

\* the loop over use_context_from: ctx is the current stepPayload.context.
\* Assigning a property on a truthy primitive throws a TypeError (module
\* code is strict).
\* variant of AddContext: no recorded output is injected
AddContextNone(ctx, names, recorded) ==
  [threw |-> FALSE, touched |-> FALSE, ctx |-> ctx]

RECURSIVE AddContext(_, _, _)
AddContext(ctx, names, recorded) ==
  IF Len(names) = 0 THEN [threw |-> FALSE, touched |-> FALSE, ctx |-> ctx]
  ELSE LET v == Get(recorded, names[1])
       IN IF ~Truthy(v) THEN AddContext(ctx, Tail(names), recorded)
          ELSE LET c == IF Truthy(ctx) THEN ctx ELSE Obj(<<>>)
               IN IF c[1] # "obj"
                  THEN [threw |-> TRUE, touched |-> TRUE, ctx |-> c]
                  ELSE LET r == AddContext(Obj(Put(c[2], names[1], v)),
                                           Tail(names), recorded)
                       IN [r EXCEPT !.touched = TRUE]

\* payload assembly of one step from the incoming payload and the run's
\* state st: the step payload, whether assembling threw, and the incoming
\* payload afterwards (its context object is shared with the step payload
\* and is written in place)
AssembleStep(step, payload, st) ==
  LET sp0 == Spread(payload, step.params)
      c0 == Get(sp0, "context")
      r == AddContext(c0, step.use_context_from, st.results)
      sp1 == IF r.touched /\ ~r.threw THEN Put(sp0, "context", r.ctx) ELSE sp0
      iss == IF step.use_issue_from = "" THEN Undef
             ELSE Get(st.issues, step.use_issue_from)
      sp2 == IF Truthy(iss) THEN Put(sp1, "id", iss) ELSE sp1
      shared == /\ r.touched /\ ~r.threw /\ Truthy(c0)
                /\ Has(payload, "context") /\ ~Has(step.params, "context")
  IN [threw |-> r.threw, stepPayload |-> sp2,
      payload |-> IF shared THEN Put(payload, "context", r.ctx) ELSE payload]

\* variant of NextStep: the loop index steps back to the step before
NextStepAgain(steps, i, payload) ==
  IF i > 1 /\ i <= Len(steps) THEN i - 1 ELSE i

\* first step at or after i that is not skipped; Len(steps) + 1 when none
RECURSIVE NextStep(_, _, _)
NextStep(steps, i, payload) ==
  IF i > Len(steps) THEN i
  ELSE IF Skipped(steps[i], payload) THEN NextStep(steps, i + 1, payload)
  ELSE i

\* variant of StepFallback: a step is given another provider to fall back on
StepFallbackOther(step) == Fallback("POE", "generate", <<>>)

\* the fallback executeWorkflow hands to executeSingleCall for a step: the
\* argument is not passed
StepFallback(step) == NoFallback

\* executeWorkflow at the top of loop iteration i with run state st: skips,
\* then either the next step up to the suspension of its executeSingleCall,
\* or the return (normal or through catch) and the finally block.
\* Sets frame' and workflowStates'.
WfIterate(p, f, st, i) ==
  LET steps == workflows[f.wf.name]
      j == NextStep(steps, i, f.wf.payload)
      others == {x \in workflowStates : x.id # st.id}
  IN IF j > Len(steps)
     THEN /\ frame' = [frame EXCEPT ![p] =
               Done([f EXCEPT !.wf.i = j], allSuccessful(f.wf.results),
                    f.wf.results, NoResult, st.id)]
          /\ workflowStates' = others
     ELSE LET a == AssembleStep(steps[j], f.wf.payload, st)
              g == [f EXCEPT !.wf.i = j, !.wf.payload = a.payload]
          IN IF a.threw
             THEN /\ frame' = [frame EXCEPT ![p] =
                       Done([g EXCEPT !.wf.threw = TRUE], FALSE,
                            IF Len(f.wf.results) > 0 THEN f.wf.results
                            ELSE << CallResult(FALSE, Undef, "TypeError", -1, "", "") >>,
                            NoResult, st.id)]
                  /\ workflowStates' = others
             ELSE /\ BeginCall(p, g, steps[j].mcp, steps[j].tool, a.stepPayload,
                               StepFallback(steps[j]), j, FALSE)
                  /\ workflowStates' = others \cup {st}

\* variant of NotFound: an empty results list
NotFoundEmpty(workflowName) == <<>>

\* the results list returned for a name that is not a declared workflow
NotFound(workflowName) ==
  << CallResult(FALSE, Undef, "Workflow not found", -1, "", "") >>

\* variant of nanoid: every run is given the same id
nanoidSame(n) == 1

\* nanoid(): an id no earlier run was given; n runs were started before
nanoid(n) == n + 1

\* executeWorkflow(workflowName, payload) up to its first suspension, as the
\* run started after runs others.  Sets frame' and workflowStates'.
ExecuteWorkflowCall(p, workflowName, payload) ==
  LET workflowId == nanoid(runs)
      f == [IdleFrame EXCEPT !.kind = "workflow", !.no = runs + 1,
                             !.input = payload,
                             !.wf = [name |-> workflowName, id |-> workflowId,
                                     i |-> 0, payload |-> payload,
                                     results |-> <<>>, threw |-> FALSE]]
  IN IF workflowName \notin WorkflowNames
     THEN /\ frame' = [frame EXCEPT ![p] =
               Done(f, FALSE, NotFound(workflowName), NoResult, workflowId)]
          /\ workflowStates' = workflowStates
     ELSE WfIterate(p, f, [id |-> workflowId, results |-> <<>>, issues |-> <<>>], 1)

\* a call of executeWorkflow with any workflow name and payload
ExecuteWorkflow(p) ==
  /\ frame[p].pc \in {"idle", "done"}
  /\ runs < MaxRuns
  /\ \E workflowName \in WorkflowInputs, payload \in WorkflowPayloads :
       ExecuteWorkflowCall(p, workflowName, payload)
  /\ runs' = runs + 1
  /\ UNCHANGED <<config, now, resultCache, settled, calls, ticks>>

\* variant of DataId: the result's data never carries an id
DataIdNone(data) == Undef

\* result.data?.id
DataId(data) == IF data[1] = "obj" THEN Get(data[2], "id") ELSE Undef

\* executeWorkflow resumes with a step's result: records it, stops on the
\* failure of a step that is not optional, otherwise goes on with the loop
ContinueWorkflow(p) ==
  /\ frame[p].pc = "resume"
  /\ frame[p].kind = "workflow"
  /\ LET f == frame[p]
         step == workflows[f.wf.name][f.wf.i]
         result == f.ret
         st0 == CHOOSE x \in workflowStates : x.id = f.wf.id
         st1 == [st0 EXCEPT !.results = Put(st0.results, step.name, result.data)]
         st == IF result.success /\ Truthy(DataId(result.data))
                  /\ step.tool = "create_issue"
               THEN [st1 EXCEPT !.issues = Put(st1.issues, step.name, DataId(result.data))]
               ELSE st1
         g == [f EXCEPT !.wf.results = Append(f.wf.results, result)]
     IN IF ~result.success /\ ~isOptionalStep(step)
        THEN /\ frame' = [frame EXCEPT ![p] =
                  Done(g, allSuccessful(g.wf.results), g.wf.results, NoResult, st.id)]
             /\ workflowStates' = {x \in workflowStates : x.id # st.id}
        ELSE WfIterate(p, g, st, f.wf.i + 1)
  /\ UNCHANGED <<config, now, resultCache, settled, calls, runs, ticks>>

\* time passes while the event loop waits: for the channel to settle or for
\* the next request; a pending continuation runs before the clock moves
Tick ==
  /\ ticks < MaxTicks
  /\ \E p \in Procs : frame[p].pc \in {"await", "done"}
  /\ \A p \in Procs : frame[p].pc \notin {"resume", "catch"}
  /\ \E d \in TickSteps : now' = now + d
  /\ ticks' = ticks + 1
  /\ UNCHANGED <<config, resultCache, workflowStates, frame, settled, calls, runs>>

\* time passes between two requests only
TickIdle ==
  /\ \A p \in Procs : frame[p].pc = "done"
  /\ Tick

\* ---------------------------------------------------------- specifications
\* the whole engine
Next ==
  \/ \E p \in Procs : RouteTask(p)
  \/ \E p \in Procs : ExecuteWorkflow(p)
  \/ \E p \in Procs : Settle(p)
  \/ \E p \in Procs : Catch(p)
  \/ \E p \in Procs : ContinueRoute(p)
  \/ \E p \in Procs : ContinueSequence(p)
  \/ \E p \in Procs : ContinueWorkflow(p)
  \/ Tick

Spec == Init /\ [][Next]_vars

\* requests are route_task only
NextRoute ==
  \/ \E p \in Procs : RouteTask(p)
  \/ \E p \in Procs : Settle(p)
  \/ \E p \in Procs : Catch(p)
  \/ \E p \in Procs : ContinueRoute(p)
  \/ \E p \in Procs : ContinueSequence(p)
  \/ Tick

SpecRoute == Init /\ [][NextRoute]_vars

\* requests are execute_workflow only
NextWorkflow ==
  \/ \E p \in Procs : ExecuteWorkflow(p)
  \/ \E p \in Procs : Settle(p)
  \/ \E p \in Procs : Catch(p)
  \/ \E p \in Procs : ContinueWorkflow(p)
  \/ TickIdle

InitWorkflow ==
  /\ Init
  /\ config.routing_rules = <<RuleResearch, RuleDeep, RuleCodegen, RuleDeploy>>

SpecWorkflow == InitWorkflow /\ [][NextWorkflow]_vars

\* both entry points, one request after the other
RouteRequest(p) == calls + runs < MaxRequests /\ RouteTask(p)

WorkflowRequest(p) == calls + runs < MaxRequests /\ ExecuteWorkflow(p)

NextEntry ==
  \/ \E p \in Procs : RouteRequest(p)
  \/ \E p \in Procs : WorkflowRequest(p)
  \/ \E p \in Procs : Settle(p)
  \/ \E p \in Procs : Catch(p)
  \/ \E p \in Procs : ContinueRoute(p)
  \/ \E p \in Procs : ContinueSequence(p)
  \/ \E p \in Procs : ContinueWorkflow(p)
  \/ TickIdle

SpecEntry == Init /\ [][NextEntry]_vars

\* requests are route_task tool requests, one after the other
NextTool ==
  \/ \E p \in Procs : RouteTaskTool(p)
  \/ \E p \in Procs : Settle(p)
  \/ \E p \in Procs : Catch(p)
  \/ \E p \in Procs : ContinueRoute(p)
  \/ \E p \in Procs : ContinueSequence(p)
  \/ TickIdle

SpecTool == Init /\ [][NextTool]_vars

\* one request in each process, the processes interleaving at their
\* suspensions
RouteOnce(p) ==
  /\ frame[p].pc = "idle"
  /\ \E taskContext \in TaskSet, payload \in RoutePayloads :
       RouteTaskCall(p, IdleFrame, calls + 1, taskContext, payload)
  /\ calls' = calls + 1
  /\ UNCHANGED <<config, now, resultCache, workflowStates, settled, runs, ticks>>

RunOnce(p) ==
  /\ frame[p].pc = "idle"
  /\ \E workflowName \in WorkflowInputs, payload \in WorkflowPayloads :
       ExecuteWorkflowCall(p, workflowName, payload)
  /\ runs' = runs + 1
  /\ UNCHANGED <<config, now, resultCache, settled, calls, ticks>>

\* concurrent routeTask calls
NextConcurrent ==
  \/ \E p \in Procs : RouteOnce(p)
  \/ \E p \in Procs : Settle(p)
  \/ \E p \in Procs : Catch(p)
  \/ \E p \in Procs : ContinueRoute(p)
  \/ \E p \in Procs : ContinueSequence(p)

InitConcurrent == InitFor(ConcurrentProcs)

SpecConcurrent == InitConcurrent /\ [][NextConcurrent]_vars

\* one request of either kind; the channel settles every invocation and the
\* event loop runs every pending continuation
Resume(p) ==
  \/ Catch(p)
  \/ ContinueRoute(p)
  \/ ContinueSequence(p)
  \/ ContinueWorkflow(p)

NextLive ==
  \/ \E p \in Procs : RouteOnce(p)
  \/ \E p \in Procs : RunOnce(p)
  \/ \E p \in Procs : Settle(p)
  \/ \E p \in Procs : Resume(p)

SpecLive ==
  /\ Init
  /\ [][NextLive]_vars
  /\ WF_vars(Settle(1))
  /\ WF_vars(Resume(1))

\* one routeTask call against a configuration of one rule, over all
\* conditions and task contexts
MatchRoute(p) ==
  /\ frame[p].pc = "idle"
  /\ \E taskContext \in MatchTasks :
       RouteTaskCall(p, IdleFrame, calls + 1, taskContext,
                     << <<"description", Str("d")>>, <<"metadata", Undef>> >>)
  /\ calls' = calls + 1
  /\ UNCHANGED <<config, now, resultCache, workflowStates, settled, runs, ticks>>

NextMatch ==
  \/ \E p \in Procs : MatchRoute(p)
  \/ \E p \in Procs : Settle(p)
  \/ \E p \in Procs : ContinueRoute(p)

InitMatch ==
  /\ config \in [routing_rules : {<<RuleProbe(c)>> : c \in MatchConditions},
                 result_caching : {FALSE},
                 cache_duration : {1}]
  /\ now = 0
  /\ resultCache = {}
  /\ workflowStates = {}
  /\ frame = [p \in {1} |-> IdleFrame]
  /\ settled = {}
  /\ calls = 0
  /\ runs = 0
  /\ ticks = 0

SpecMatch == InitMatch /\ [][NextMatch]_vars

\* one routeTask call that the four-step sequence serves
SequenceRoute(p) ==
  /\ frame[p].pc = "idle"
  /\ \E payload \in SequencePayloads :
       RouteTaskCall(p, IdleFrame, calls + 1,
                     Task("code_generation", "undefined", "undefined", "undefined"),
                     payload)
  /\ calls' = calls + 1
  /\ UNCHANGED <<config, now, resultCache, workflowStates, settled, runs, ticks>>

NextSequence ==
  \/ \E p \in Procs : SequenceRoute(p)
  \/ \E p \in Procs : Settle(p)
  \/ \E p \in Procs : ContinueSequence(p)

InitSequence ==
  /\ config \in [routing_rules : {<<RulePipeline>>},
                 result_caching : BOOLEAN,
                 cache_duration : {1}]
  /\ now = 0
  /\ resultCache = {}
  /\ workflowStates = {}
  /\ frame = [p \in {1} |-> IdleFrame]
  /\ settled = {}
  /\ calls = 0
  /\ runs = 0
  /\ ticks = 0

SpecSequence == InitSequence /\ [][NextSequence]_vars

\* concurrent executeWorkflow calls
NextRuns ==
  \/ \E p \in Procs : RunOnce(p)
  \/ \E p \in Procs : Settle(p)
  \/ \E p \in Procs : Catch(p)
  \/ \E p \in Procs : ContinueWorkflow(p)

\* without the cache every step of every run reaches the channel, so two
\* runs of one workflow on one payload can record different outputs
InitRuns ==
  /\ InitConcurrent
  /\ config.routing_rules = <<RuleResearch, RuleDeep, RuleCodegen, RuleDeploy>>
  /\ ~config.result_caching

SpecRuns == InitRuns /\ [][NextRuns]_vars

\* ------------------------------------------------------------------ claims
Rules == config.routing_rules

TTLms == config.cache_duration * 1000

\* indices of the rules whose condition holds for a task
Matching(taskContext) ==
  {i \in 1..Len(Rules) : matchesCondition(Rules[i].condition, taskContext)}

RouteKinds == {"single", "sequence"}

\* a logged call is the one the rule declares at that position
RuleCall(rule, entry) ==
  IF rule.hasSequence
  THEN /\ entry.step \in 1..Len(rule.sequence)
       /\ entry.mcp = rule.sequence[entry.step].mcp
       /\ entry.tool = rule.sequence[entry.step].tool
  ELSE IF entry.nested
  THEN rule.fallback.present /\ entry.mcp = rule.fallback.mcp
       /\ entry.tool = rule.fallback.tool
  ELSE entry.mcp = rule.primary_mcp /\ entry.tool = rule.tool

\* the executeSingleCall invocation a frame made last
Cur(f) == f.log[f.call.logIx]

\* the frame has made that invocation's cache lookup and nothing after it
JustBegun(f) ==
  /\ Len(f.log) > 0
  /\ \/ f.pc \in {"await", "catch"}
     \/ f.pc = "resume" /\ Cur(f).outcome = "hit"

\* C1. Rule precedence: routeTask acts on the first rule, in declaration
\* order, whose condition holds: the rule it uses is the matching rule with
\* the least index in the configured order (so with two matching rules the
\* order decides which one fires), every call it makes is a call of that
\* rule, and with no matching rule it makes no call at all.
C1_RulePrecedence ==
  \A p \in Procs :
    LET f == frame[p]
        M == Matching(f.task)
    IN f.kind \in RouteKinds =>
         /\ (M = {}) <=> (f.rule = 0)
         /\ M = {} => f.log = <<>> /\ f.pc = "done" /\ ~f.out.result.success
         /\ M # {} =>
              /\ f.rule \in M
              /\ \A j \in M : f.rule <= j
              /\ Len(f.log) >= 1
              /\ ~f.log[1].nested /\ f.log[1].step \in {0, 1}
              /\ \A k \in 1..Len(f.log) : RuleCall(Rules[f.rule], f.log[k])

\* two rules match, the one declared first is deep_research, and its
\* provider is the one called
C1_Witness ==
  \E p \in Procs :
    /\ frame[p].kind = "single" /\ frame[p].pc = "done"
    /\ Cardinality(Matching(frame[p].task)) >= 2
    /\ Rules[1].name = "deep_research" /\ frame[p].rule = 1
    /\ frame[p].log[1].mcp = "Tavily"

\* C2. Fallback on channel rejection: when the matched single-call rule
\* declares a fallback and the channel rejects the primary invocation, the
\* fallback provider/tool is invoked and its outcome is what routeTask returns.
C2_FallbackOnRejection ==
  \A p \in Procs :
    LET f == frame[p] IN
      ( /\ f.kind = "single" /\ f.pc = "done" /\ f.rule # 0
        /\ Rules[f.rule].fallback.present
        /\ Len(f.log) >= 1
        /\ f.log[1].outcome = "invoked" /\ f.log[1].finished /\ ~f.log[1].success )
      => /\ Len(f.log) >= 2
         /\ f.log[2].mcp = Rules[f.rule].fallback.mcp
         /\ f.log[2].tool = Rules[f.rule].fallback.tool
         /\ f.out.result.mcp_server = Rules[f.rule].fallback.mcp
         /\ f.out.result.success = f.log[2].success

\* C3. Fallback is one level deep: an executeSingleCall makes at most two
\* call attempts; a second attempt is the nested call of the catch block, it
\* follows a first attempt that had a fallback and threw, it is made for the
\* fallback's provider/tool with the fallback's params merged over the
\* payload, it carries no fallback itself, and its result is returned
\* unchanged as the result of routeTask.
C3_FallbackOneLevel ==
  \A p \in Procs :
    LET f == frame[p] IN
      /\ \A k \in 1..Len(f.log) :
           /\ Cardinality({m \in 1..Len(f.log) : f.log[m].step = f.log[k].step}) <= 2
           /\ f.log[k].nested =>
                /\ ~f.log[k].fallback
                /\ k > 1
                /\ f.log[k - 1].fallback /\ ~f.log[k - 1].nested
                /\ f.log[k - 1].outcome = "threw"
                /\ f.log[k - 1].step = f.log[k].step
      /\ (f.kind = "single" /\ f.rule # 0 /\ Rules[f.rule].fallback.present) =>
           LET fb == Rules[f.rule].fallback IN
             /\ Len(f.log) <= 2
             /\ Len(f.log) = 2 =>
                  /\ f.log[2].nested
                  /\ f.log[2].mcp = fb.mcp /\ f.log[2].tool = fb.tool
                  /\ f.log[2].payload = Spread(f.log[1].payload, fb.params)
             /\ (Len(f.log) = 2 /\ f.pc = "done") =>
                  /\ f.out.result = f.ret
                  /\ f.out.result.mcp_server = fb.mcp /\ f.out.result.tool = fb.tool
                  /\ f.out.result.success = f.log[2].success
                  /\ f.out.result.data = f.log[2].data

\* the primary provider is missing from the registry, the fallback was
\* invoked once, succeeded, and routeTask has returned
C3_Witness ==
  \E p \in Procs :
    /\ frame[p].kind = "single" /\ frame[p].pc = "done"
    /\ Len(frame[p].log) = 2
    /\ frame[p].log[2].outcome = "invoked" /\ frame[p].log[2].success
    /\ frame[p].out.result.success

\* C4 as stated. Cache idempotence: with caching enabled, an
\* executeSingleCall made less than the TTL after an earlier invocation of
\* the channel for the same (provider, tool, payload) does not reach the
\* channel again and returns success=true with executionTime 0.
C4_CacheIdempotence ==
  config.result_caching =>
    \A p \in Procs :
      LET f == frame[p] IN
        JustBegun(f) =>
          \A h \in settled :
            (h.key = Cur(f).key /\ Cur(f).begin - h.time < TTLms)
            => /\ Cur(f).outcome = "hit"
               /\ f.ret.success /\ f.ret.executionTime = 0

\* C4 amended: ... after an earlier invocation of the channel for the same
\* key that succeeded ...; the value returned is that invocation's data.
C4_CacheIdempotenceAfterSuccess ==
  config.result_caching =>
    \A p \in Procs :
      LET f == frame[p] IN
        JustBegun(f) =>
          \A h \in settled :
            (h.key = Cur(f).key /\ h.ok /\ Cur(f).begin - h.time < TTLms)
            => /\ Cur(f).outcome = "hit"
               /\ f.pc = "resume"
               /\ f.ret.success /\ f.ret.executionTime = 0
               /\ f.ret.data = h.data

\* a second call, 500 ms after the first one succeeded, served from the cache
C4_Witness ==
  /\ config.result_caching
  /\ \E p \in Procs :
       /\ JustBegun(frame[p]) /\ Cur(frame[p]).outcome = "hit"
       /\ \E h \in settled :
            /\ h.key = Cur(frame[p]).key /\ h.ok
            /\ Cur(frame[p]).begin - h.time = 500

\* C5. Cache expiry: a lookup that finds an entry whose age has reached the
\* TTL is a miss and the channel is invoked again; the lookup leaves the
\* stale entry in place, and an entry only ever leaves the cache by being
\* replaced when a successful call writes the same key.
C5_Lookup ==
  config.result_caching =>
    \A p \in Procs :
      LET f == frame[p] IN
        (Len(f.log) > 0 /\ Cur(f).cachedAge >= TTLms) =>
          LET j == Cur(f) IN
            /\ j.outcome = "invoked"
            /\ (~j.finished \/ ~j.success) =>
                 \E e \in resultCache :
                   e.key = j.key /\ e.timestamp = j.begin - j.cachedAge
            /\ (j.finished /\ j.success) =>
                 CacheGet(resultCache, j.key) =
                   {[key |-> j.key, result |-> j.data, timestamp |-> j.finish]}

C5_Replace ==
  \A e \in resultCache :
    e \notin resultCache' =>
      \E p \in Procs :
        /\ frame[p].pc = "await" /\ frame'[p].pc = "resume"
        /\ frame'[p].ret.success
        /\ CacheKey(frame[p].call.mcp, frame[p].call.tool, frame[p].call.payload) = e.key
        /\ CacheGet(resultCache', e.key) =
             {[key |-> e.key, result |-> frame'[p].ret.data, timestamp |-> now]}

C5_CacheExpiry == [](C5_Lookup) /\ [][C5_Replace]_vars

\* a lookup found an entry exactly as old as the TTL and the channel call it
\* caused is in flight
C5_Witness ==
  /\ config.result_caching
  /\ \E p \in Procs :
       /\ frame[p].pc = "await"
       /\ Cur(frame[p]).cachedAge = TTLms

\* ------------------------------------------------------- workflow claims
\* the frame is a run of a declared workflow
KnownRun(f) == f.kind = "workflow" /\ f.wf.name \in WorkflowNames

StepsOf(f) == workflows[f.wf.name]

\* the declared step a logged call or a recorded result belongs to
StepAt(f, k) == StepsOf(f)[f.log[k].step]

\* the step has no condition or its condition holds for the run's payload
CondHolds(step, payload) ==
  step.condition = "" \/ evaluateCondition(step.condition, payload)

\* indices of the declared steps whose condition holds, in declared order
EnabledSteps(f) ==
  SelectSeq([j \in 1..Len(StepsOf(f)) |-> j],
            LAMBDA j : CondHolds(StepsOf(f)[j], f.input))

\* result k of the run is the failure of a step outside the optional list
MandatoryFailure(f, k) ==
  ~f.wf.results[k].success /\ StepAt(f, k).name \notin optionalSteps

\* result k of the run is the failure of a step of the optional list
OptionalFailure(f, k) ==
  ~f.wf.results[k].success /\ StepAt(f, k).name \in optionalSteps

\* C6. Workflow fail-fast: when a step that is not optional fails, the run
\* returns success=false, the returned results end with that step's failed
\* result, and no step declared after it makes a call.
C6_FailFast ==
  \A p \in Procs :
    LET f == frame[p] IN
      KnownRun(f) =>
        \A k \in 1..Len(f.wf.results) :
          MandatoryFailure(f, k) =>
            /\ f.pc = "done" /\ ~f.out.success
            /\ f.out.results = f.wf.results
            /\ k = Len(f.out.results) /\ k = Len(f.log)
            /\ ~f.out.results[k].success
            /\ f.out.results[k].tool = StepAt(f, k).tool
            /\ \A m \in 1..Len(f.log) : f.log[m].step <= f.log[k].step

\* bug_fix_workflow: analyze succeeded, create_issue failed, the run returned
\* with two results
C6_Witness ==
  \E p \in Procs :
    LET f == frame[p] IN
      /\ KnownRun(f) /\ f.wf.name = "bug_fix_workflow" /\ f.pc = "done"
      /\ Len(f.out.results) = 2
      /\ f.out.results[1].success /\ ~f.out.results[2].success
      /\ f.log[2].tool = "create_issue" /\ ~f.out.success

\* C7 as stated. Optional tolerance: when a step of the optional list fails,
\* its failed result is recorded and every step declared after it whose
\* condition holds is executed.
C7_OptionalTolerance ==
  \A p \in Procs :
    LET f == frame[p] IN
      (KnownRun(f) /\ f.pc = "done") =>
        \A k \in 1..Len(f.wf.results) :
          OptionalFailure(f, k) =>
            /\ ~f.out.results[k].success
            /\ \A j \in (f.log[k].step + 1)..Len(StepsOf(f)) :
                 CondHolds(StepsOf(f)[j], f.input) =>
                   \E m \in 1..Len(f.log) : f.log[m].step = j

\* C7 amended: ... every step declared after it whose condition holds is
\* executed, up to and including the first of them that is not optional and
\* fails; while the run has not returned, the call of the step after the
\* failed optional one has been started.
C7_OptionalToleranceUntilFailFast ==
  \A p \in Procs :
    LET f == frame[p] IN
      KnownRun(f) =>
        \A k \in 1..Len(f.wf.results) :
          OptionalFailure(f, k) =>
            /\ f.pc # "done" => Len(f.log) > Len(f.wf.results)
            /\ f.pc = "done" =>
                 /\ ~f.out.results[k].success
                 /\ \A j \in (f.log[k].step + 1)..Len(StepsOf(f)) :
                      CondHolds(StepsOf(f)[j], f.input) =>
                        \/ \E m \in 1..Len(f.log) : f.log[m].step = j
                        \/ \E m \in 1..Len(f.wf.results) :
                             /\ f.log[m].step > f.log[k].step
                             /\ f.log[m].step < j
                             /\ MandatoryFailure(f, m)

\* bug_fix_workflow: get_context failed and the two steps declared after it
\* were executed
C7_Witness ==
  \E p \in Procs :
    LET f == frame[p] IN
      /\ KnownRun(f) /\ f.wf.name = "bug_fix_workflow" /\ f.pc = "done"
      /\ Len(f.log) = 5
      /\ f.log[3].tool = "get_library_docs" /\ ~f.wf.results[3].success
      /\ f.log[4].outcome = "invoked" /\ f.log[5].outcome = "invoked"

\* every result of the run but those of failed optional steps is a success,
\* and there is a failed optional step
OnlyOptionalFailed(f) ==
  /\ \E k \in 1..Len(f.wf.results) : OptionalFailure(f, k)
  /\ \A k \in 1..Len(f.wf.results) : ~MandatoryFailure(f, k)

\* C8 as stated. When the only failing step of a run is an optional step,
\* the results hold all executed steps with the optional one marked failed
\* and the overall success is true.
C8_OptionalFailureSuccess ==
  \A p \in Procs :
    LET f == frame[p] IN
      (KnownRun(f) /\ f.pc = "done" /\ OnlyOptionalFailed(f)) =>
        /\ f.out.results = f.wf.results
        /\ f.out.success

\* C8 amended: ... the results hold every declared step whose condition
\* holds, in declared order, with the optional one marked failed, and the
\* overall success is false.
C8_OptionalFailureFails ==
  \A p \in Procs :
    LET f == frame[p] IN
      (KnownRun(f) /\ f.pc = "done" /\ OnlyOptionalFailed(f)) =>
        /\ f.out.results = f.wf.results
        /\ Len(f.out.results) = Len(EnabledSteps(f))
        /\ \A k \in 1..Len(f.out.results) :
             /\ f.log[k].step = EnabledSteps(f)[k]
             /\ f.out.results[k].tool = StepAt(f, k).tool
             /\ f.out.results[k].success <=> StepAt(f, k).name \notin optionalSteps
        /\ ~f.out.success

\* bug_fix_workflow returned five results of which only get_context failed
C8_Witness ==
  \E p \in Procs :
    LET f == frame[p] IN
      /\ KnownRun(f) /\ f.wf.name = "bug_fix_workflow" /\ f.pc = "done"
      /\ OnlyOptionalFailed(f)
      /\ Len(f.out.results) = 5
      /\ \A k \in {1, 2, 4, 5} : f.out.results[k].success

C10_ConditionalSkip ==
  \A p \in Procs :
    LET f == frame[p] IN
      KnownRun(f) =>
        /\ Len(f.log) <= Len(EnabledSteps(f))
        /\ \A m \in 1..Len(f.log) : f.log[m].step = EnabledSteps(f)[m]
        /\ Len(f.wf.results) <= Len(f.log)
        /\ \A j \in 1..Len(StepsOf(f)) :
             ~CondHolds(StepsOf(f)[j], f.input) =>
               \A m \in 1..Len(f.log) : f.log[m].step # j
        /\ f.no = 1 =>
             \A e \in resultCache :
               \E m \in 1..Len(f.log) :
                 /\ f.log[m].key = e.key /\ f.log[m].outcome = "invoked"
                 /\ f.log[m].success /\ f.log[m].finish = e.timestamp
        /\ ( f.pc = "done"
             /\ \A k \in 1..Len(f.wf.results) : ~MandatoryFailure(f, k) )
           => Len(f.out.results) = Len(EnabledSteps(f))

\* bug_fix_workflow without a codebase: get_context was skipped and the call
\* of generate_fix, the step after it, has been made
C10_Witness ==
  \E p \in Procs :
    LET f == frame[p] IN
      /\ KnownRun(f) /\ f.wf.name = "bug_fix_workflow"
      /\ ~Truthy(Get(f.input, "codebase"))
      /\ Len(f.log) >= 3
      /\ f.log[3].step = 4 /\ f.log[3].tool = "generate"

\* ------------------------------------------- workflow propagation claims
\* index of the call a run made for the step of that name, 0 when none
CallOf(f, name) ==
  IF \E m \in 1..Len(f.log) : StepAt(f, m).name = name
  THEN CHOOSE m \in 1..Len(f.log) : StepAt(f, m).name = name
  ELSE 0

\* the output a run has recorded for the step of that name before call k:
\* the data of that step's finished call, Undef when the step made none
RecordedOutput(f, name, k) ==
  LET m == CallOf(f, name)
  IN IF m # 0 /\ m < k THEN f.log[m].data ELSE Undef

\* the id held by a step's output, Undef when there is none
IdOf(data) == IF data[1] = "obj" THEN Get(data[2], "id") ELSE Undef

\* the identifier a run has recorded for the step of that name before call
\* k: the id of its output when the step succeeded with create_issue
RecordedIssue(f, name, k) ==
  LET m == CallOf(f, name)
  IN IF m # 0 /\ m < k /\ f.log[m].success /\ f.log[m].tool = "create_issue"
     THEN IdOf(f.log[m].data) ELSE Undef

\* C11. Context propagation: a workflow step that lists earlier steps in
\* use_context_from is called with a payload whose context holds, under each
\* listed name whose step recorded an output (a truthy value) earlier in the
\* same run, exactly that output; a listed step that was skipped, failed or
\* recorded nothing contributes no key.
C11_ContextPropagation ==
  \A p \in Procs :
    LET f == frame[p] IN
      KnownRun(f) =>
        \A k \in 1..Len(f.log) :
          LET names == StepAt(f, k).use_context_from
              ctx == Get(f.log[k].payload, "context")
          IN \A n \in 1..Len(names) :
               LET out == RecordedOutput(f, names[n], k)
               IN IF Truthy(out)
                  THEN ctx[1] = "obj" /\ Get(ctx[2], names[n]) = out
                  ELSE ctx[1] = "obj" => ~Has(ctx[2], names[n])

\* generate_fix was called with the outputs of analyze and of get_context
\* under context.analyze and context.get_context
C11_Witness ==
  \E p \in Procs :
    LET f == frame[p] IN
      /\ KnownRun(f) /\ Len(f.log) >= 4
      /\ StepAt(f, 4).name = "generate_fix"
      /\ Get(f.log[4].payload, "context") =
           Obj(<< <<"analyze", f.log[1].data>>, <<"get_context", f.log[3].data>> >>)
      /\ Truthy(f.log[1].data) /\ Truthy(f.log[3].data)

\* C12. Resource propagation: a workflow step that names an earlier step in
\* use_issue_from is called with payload field id equal to the identifier
\* recorded for that step, which exists exactly when that step succeeded
\* with tool create_issue and data carrying an id; the injected id replaces
\* the id of the original payload or of the step's params, which is what
\* the step receives when no identifier was recorded.
C12_ResourcePropagation ==
  \A p \in Procs :
    LET f == frame[p] IN
      KnownRun(f) =>
        \A k \in 1..Len(f.log) :
          LET step == StepAt(f, k)
              own == Get(Spread(f.input, step.params), "id")
              issue == RecordedIssue(f, step.use_issue_from, k)
          IN Get(f.log[k].payload, "id") =
               IF step.use_issue_from # "" /\ Truthy(issue) THEN issue ELSE own

\* complete was called with the id create_issue returned in place of the id
\* of its params
C12_Witness ==
  \E p \in Procs :
    LET f == frame[p] IN
      /\ KnownRun(f) /\ Len(f.log) >= 1
      /\ StepAt(f, Len(f.log)).name = "complete"
      /\ Get(StepAt(f, Len(f.log)).params, "id") = Str("unassigned")
      /\ Get(f.log[Len(f.log)].payload, "id") = Str("ISS-1")

\* the frame is a run requested for a name that is not a declared workflow
UnknownRun(f) == f.kind = "workflow" /\ f.wf.name \notin WorkflowNames

C13_Returned ==
  \A p \in Procs :
    LET f == frame[p] IN
      UnknownRun(f) =>
        /\ f.pc = "done" /\ ~f.out.success
        /\ Len(f.out.results) = 1
        /\ ~f.out.results[1].success /\ f.out.results[1].error # ""
        /\ f.log = <<>>
        /\ \A x \in workflowStates : x.id # f.wf.id

C13_Untouched ==
  \A p \in Procs :
    (frame'[p] # frame[p] /\ UnknownRun(frame'[p])) =>
      /\ resultCache' = resultCache
      /\ workflowStates' = workflowStates
      /\ settled' = settled

\* C13. Unknown workflow: executeWorkflow with a name that is not declared
\* returns at once success=false with a results list of exactly one failed
\* entry; it makes no call, and the step that handles it leaves
\* workflowStates, the result cache and the channel untouched.
C13_UnknownWorkflow == [](C13_Returned) /\ [][C13_Untouched]_vars

\* a request for no_such_workflow has returned
C13_Witness ==
  \E p \in Procs :
    /\ UnknownRun(frame[p]) /\ frame[p].pc = "done"
    /\ frame[p].wf.name = "no_such_workflow"
    /\ Len(frame[p].out.results) = 1

\* the frame is a routeTask call for a task no rule's condition holds for
RoutingMiss(f) == f.kind \in RouteKinds /\ Matching(f.task) = {}

C14_NoRoute ==
  \A p \in Procs :
    LET f == frame[p] IN
      RoutingMiss(f) =>
        /\ f.pc = "done"
        /\ ~f.out.success /\ ~f.out.result.success
        /\ f.out.result.error # ""
        /\ f.out.result.mcp_server = "" /\ f.out.result.tool = ""
        /\ f.log = <<>>

C14_NoAccess ==
  \A p \in Procs :
    (frame'[p] # frame[p] /\ RoutingMiss(frame'[p])) =>
      /\ resultCache' = resultCache
      /\ settled' = settled

\* C14. Routing miss: when no rule's condition holds for the task, routeTask
\* returns, in the step that looked for the rule, a result with
\* success=false and an error; it starts no executeSingleCall, so there is
\* no cache lookup and no channel call, and the cache is left as it was.
C14_RoutingMiss == [](C14_NoRoute) /\ [][C14_NoAccess]_vars

\* a chat task, which no rule matches, was routed as the second request,
\* after a request that left an entry in the cache
C14_Witness ==
  \E p \in Procs :
    /\ RoutingMiss(frame[p]) /\ frame[p].pc = "done"
    /\ frame[p].task.task_type = "chat"
    /\ frame[p].no = 2
    /\ resultCache # {}

\* the positions of an entry point: before its first request, suspended on
\* the channel, in the catch block of executeSingleCall, about to resume its
\* caller, returned
Positions == {"idle", "await", "catch", "resume", "done"}

\* a result carries an explicit success flag, and an error when it failed
Structured(r) == r.success \in BOOLEAN /\ (~r.success => r.error # "")

\* the caller a suspended executeSingleCall resumes is there: routeTask,
\* executeSequence, or executeWorkflow with the state of its run
HasContinuation(f) ==
  /\ f.kind \in {"single", "sequence", "workflow"}
  /\ f.kind = "workflow" =>
       /\ \E x \in workflowStates : x.id = f.wf.id
       /\ f.wf.i \in 1..Len(workflows[f.wf.name])
  /\ f.kind = "sequence" => f.seq.i \in 1..Len(Rules[f.rule].sequence)

\* C15. Errors as data: whatever the channel does and whichever provider a
\* rule or a workflow step names, no entry point leaves by an exception: a
\* rejection comes back from executeSingleCall as a result with
\* success=false, the catch block is entered only for a provider missing
\* from the registry and ends in a result as well, a suspended call always
\* has its continuation, and what routeTask and executeWorkflow return is a
\* structured result with an explicit success flag.
C15_ErrorsAsData ==
  \A p \in Procs :
    LET f == frame[p] IN
      /\ f.pc \in Positions
      /\ f.pc \in {"await", "catch", "resume"} => HasContinuation(f)
      /\ f.pc = "catch" =>
           Cur(f).outcome = "threw" /\ Cur(f).mcp \notin mcp_servers
      /\ \A k \in 1..Len(f.log) :
           f.log[k].outcome = "invoked" => f.log[k].mcp \in mcp_servers
      /\ (f.pc = "resume" /\ ~Cur(f).success) =>
           /\ Structured(f.ret) /\ ~f.ret.success
           /\ f.ret.mcp_server = Cur(f).mcp /\ f.ret.tool = Cur(f).tool
      /\ (f.pc = "done" /\ f.kind \in RouteKinds) =>
           /\ Structured(f.out.result)
           /\ f.out.success = f.out.result.success
           /\ (\E k \in 1..Len(f.log) : ~f.log[k].success /\ ~f.log[k].fallback)
                => ~f.out.result.success
      /\ (f.pc = "done" /\ f.kind = "workflow") =>
           /\ f.out.success \in BOOLEAN
           /\ Len(f.out.results) >= 1
           /\ \A k \in 1..Len(f.out.results) : Structured(f.out.results[k])
           /\ (\E k \in 1..Len(f.log) : ~f.log[k].success) => ~f.out.success

\* a workflow run returned after the channel rejected one step and another
\* step named a provider that is not registered
C15_Witness ==
  \E p \in Procs :
    LET f == frame[p] IN
      /\ f.kind = "workflow" /\ f.pc = "done"
      /\ \E k \in 1..Len(f.log) :
           f.log[k].outcome = "invoked" /\ f.log[k].finished /\ ~f.log[k].success
      /\ \E k \in 1..Len(f.log) : f.log[k].outcome = "threw"
      /\ ~f.out.success

\* process p's channel call settles in this step, with this success flag
Settles(p, ok) ==
  /\ frame[p].pc = "await" /\ frame'[p].pc = "resume"
  /\ frame'[p].ret.success = ok

C16_Content ==
  /\ ~config.result_caching =>
       /\ resultCache = {}
       /\ \A p \in Procs : \A k \in 1..Len(frame[p].log) :
            /\ frame[p].log[k].outcome # "hit"
            /\ frame[p].log[k].mcp \in mcp_servers => frame[p].log[k].outcome = "invoked"
  /\ \A e \in resultCache :
       /\ config.result_caching
       /\ CacheGet(resultCache, e.key) = {e}
       /\ e.key[1] \in mcp_servers
       /\ e.result \in ChannelData(e.key[2])
       /\ e.timestamp <= now
       /\ \E h \in settled : h.key = e.key
       /\ \A h \in settled :
            (h.key = e.key /\ h.ok) => e.result = h.data /\ e.timestamp = h.time

C16_Write ==
  /\ \A e \in resultCache' \ resultCache :
       \E p \in Procs :
         /\ Settles(p, TRUE)
         /\ e = [key |-> Cur(frame[p]).key, result |-> frame'[p].ret.data,
                 timestamp |-> now]
  /\ \A p \in Procs : Settles(p, FALSE) => resultCache' = resultCache

SameArguments(f) ==
  /\ f.prev.present
  /\ f.prev.task = f.task
  /\ Get(f.prev.input, "description") = Get(f.input, "description")
  /\ Get(f.prev.input, "metadata") = Get(f.input, "metadata")

\* C17. Cache idempotence at the route_task entry point: with caching
\* enabled, a route_task request that follows, inside the TTL, a successful
\* request with the same arguments which invoked the channel once is served
\* from the cache, so that the two requests cause one channel invocation.
C17_ToolCacheIdempotence ==
  config.result_caching =>
    \A p \in Procs :
      LET f == frame[p] IN
        ( /\ f.kind = "single" /\ Len(f.log) >= 1
          /\ SameArguments(f)
          /\ f.prev.success /\ f.prev.invoked = 1
          /\ f.log[1].begin - f.prev.finish < TTLms )
        => /\ f.log[1].outcome = "hit"
           /\ f.prev.invoked + Invocations(f.log) = 1

\* a logged call has failed: its provider is not registered or the channel
\* rejected it
Failed(e) == e.outcome = "threw" \/ (e.finished /\ ~e.success)

\* C18. Sequence short-circuit: when a step of a rule's sequence fails, it
\* is the last step that makes a call, and what executeSequence, and with it
\* routeTask, returns is that step's failing result: its provider, its tool,
\* its error, and no list of the earlier steps' outputs.
C18_SequenceShortCircuit ==
  \A p \in Procs :
    LET f == frame[p] IN
      f.kind = "sequence" =>
        \A k \in 1..Len(f.log) :
          Failed(f.log[k]) =>
            /\ k = Len(f.log)
            /\ f.pc \in {"catch", "resume", "done"}
            /\ f.pc = "done" =>
                 /\ ~f.out.success /\ ~f.out.result.success
                 /\ f.out.result = f.ret
                 /\ f.out.result.mcp_server = f.log[k].mcp
                 /\ f.out.result.tool = f.log[k].tool
                 /\ f.out.result.error # ""
                 /\ f.out.result.data = Undef

\* the first step of the code_generation sequence succeeded, the second was
\* rejected, and the sequence returned the second step's failure
C18_Witness ==
  \E p \in Procs :
    LET f == frame[p] IN
      /\ f.kind = "sequence" /\ f.pc = "done"
      /\ Len(f.log) = 2
      /\ f.log[1].success /\ Failed(f.log[2])
      /\ f.out.result.tool = "generate" /\ ~f.out.result.success

\* C19. Sequence completion: executeSequence returns success=true exactly
\* when every step of the sequence made its call and succeeded, and then
\* the data returned is the list of the steps' outputs, one per step, in
\* declared order.
C19_SequenceCompletion ==
  \A p \in Procs :
    LET f == frame[p]
        sequence == Rules[f.rule].sequence
    IN (f.kind = "sequence" /\ f.pc = "done") =>
         /\ f.out.result.success <=>
              /\ Len(f.log) = Len(sequence)
              /\ \A k \in 1..Len(f.log) : f.log[k].success
         /\ f.out.result.success =>
              /\ f.out.success
              /\ \A k \in 1..Len(f.log) : f.log[k].step = k
              /\ f.out.result.data = Arr([k \in 1..Len(sequence) |-> f.log[k].data])
              /\ f.out.result.mcp_server = "sequence"
              /\ f.out.result.tool = "multi-step"

\* the code_generation sequence completed with two different outputs,
\* returned in the order of the steps
C19_Witness ==
  \E p \in Procs :
    LET f == frame[p] IN
      /\ f.kind = "sequence" /\ f.pc = "done" /\ f.out.result.success
      /\ Len(f.log) = 2
      /\ f.log[1].data # f.log[2].data
      /\ f.out.result.data = Arr(<<f.log[1].data, f.log[2].data>>)

\* C20. No fallback for workflow steps: each executed step of a run makes
\* one call, for its own declared provider and tool and without a fallback;
\* that call invokes the channel at most once, and not at all when it is
\* served from the cache or its provider is not registered; a failed step is
\* not followed by another call for the same step.
C20_NoWorkflowFallback ==
  \A p \in Procs :
    LET f == frame[p] IN
      KnownRun(f) =>
        /\ \A k \in 1..Len(f.log) :
             /\ ~f.log[k].nested /\ ~f.log[k].fallback
             /\ f.log[k].mcp = StepAt(f, k).mcp
             /\ f.log[k].tool = StepAt(f, k).tool
             /\ f.log[k].outcome =
                  IF config.result_caching /\ f.log[k].cachedAge \in 0..(TTLms - 1)
                  THEN "hit"
                  ELSE IF f.log[k].mcp \in mcp_servers THEN "invoked" ELSE "threw"
             /\ \A m \in 1..Len(f.log) : m < k => f.log[m].step < f.log[k].step
        /\ \A j \in 1..Len(StepsOf(f)) :
             Cardinality({k \in 1..Len(f.log) :
                            f.log[k].step = j /\ f.log[k].outcome = "invoked"}) <= 1
        /\ f.call.fallback = NoFallback

\* deployment_pipeline returned after deploy, whose provider is not
\* registered, failed without any further call, and after verify_docs was
\* served from the cache
C20_Witness ==
  \E p \in Procs :
    LET f == frame[p] IN
      /\ KnownRun(f) /\ f.wf.name = "deployment_pipeline" /\ f.pc = "done"
      /\ Len(f.log) = 3
      /\ f.log[2].outcome = "hit"
      /\ f.log[3].outcome = "threw" /\ f.log[3].mcp = "Vercel"
      /\ ~f.out.success

\* ------------------------------------------------- workflow ordering claims
\* the logged call has resolved, rejected or thrown
Resolved(e) == e.finished \/ e.outcome = "threw"

\* the logged call is a channel invocation that has not settled yet
InFlight(e) == e.outcome = "invoked" /\ ~e.finished

\* C21. Workflow step ordering: within one run the calls are made in
\* declared step order and every declared step before a call whose condition
\* holds was called before it; a call is in flight only as the last logged
\* call and only while the run is suspended on it, so at most one invocation
\* of a run is in flight.
C21_Order ==
  \A p \in Procs :
    LET f == frame[p] IN
      KnownRun(f) =>
        /\ \A k \in 1..Len(f.log) :
             /\ k > 1 => /\ f.log[k - 1].step < f.log[k].step
                         /\ Resolved(f.log[k - 1])
                         /\ f.log[k - 1].finish <= f.log[k].begin
             /\ \A j \in 1..(f.log[k].step - 1) :
                  CondHolds(StepsOf(f)[j], f.input) =>
                    \E m \in 1..(k - 1) : f.log[m].step = j
             /\ InFlight(f.log[k]) => k = Len(f.log) /\ f.pc = "await"
        /\ Cardinality({k \in 1..Len(f.log) : InFlight(f.log[k])}) <= 1

\* C21, the step: a call of a run is started only when every call the run
\* made before has resolved, rejected or thrown.
C21_Start ==
  \A p \in Procs :
    (KnownRun(frame'[p]) /\ frame'[p].no = frame[p].no
       /\ Len(frame'[p].log) > Len(frame[p].log)) =>
      /\ frame[p].pc = "resume"
      /\ \A k \in 1..Len(frame[p].log) : Resolved(frame[p].log[k])
      /\ Len(frame'[p].log) = Len(frame[p].log) + 1

C21_StepOrdering == [](C21_Order) /\ [][C21_Start]_vars

\* bug_fix_workflow with a codebase is suspended on its fourth step,
\* generate_fix, after analyze, create_issue and get_context each settled
C21_Witness ==
  \E p \in Procs :
    LET f == frame[p] IN
      /\ KnownRun(f) /\ f.wf.name = "bug_fix_workflow" /\ f.pc = "await"
      /\ Len(f.log) = 4 /\ f.log[4].step = 4
      /\ InFlight(f.log[4])
      /\ \A k \in 1..3 : f.log[k].outcome = "invoked" /\ f.log[k].finished

\* ------------------------------------------------------- concurrency claims
\* the logged calls, of any process, that invoked the channel for the key
\* and succeeded
Writers(key) ==
  UNION { { <<p, k>> : k \in {k \in 1..Len(frame[p].log) :
                                LET c == frame[p].log[k]
                                IN /\ c.key = key /\ c.outcome = "invoked"
                                   /\ c.finished /\ c.success} } : p \in Procs }

WriterCall(w) == frame[w[1]].log[w[2]]

C22_Value ==
  /\ \A e \in resultCache :
       /\ \A x \in resultCache : x.key = e.key => x = e
       /\ \E w \in Writers(e.key) :
            WriterCall(w).data = e.result /\ WriterCall(w).finish = e.timestamp
       /\ \A w \in Writers(e.key) : WriterCall(w).finish <= e.timestamp
  /\ \A p \in Procs : \A k \in 1..Len(frame[p].log) :
       (config.result_caching /\ <<p, k>> \in Writers(frame[p].log[k].key)) =>
         \E e \in resultCache : e.key = frame[p].log[k].key

C22_Overwrite ==
  \A p \in Procs :
    /\ (Settles(p, TRUE) /\ config.result_caching) =>
         /\ CacheGet(resultCache', Cur(frame[p]).key) =
              {[key |-> Cur(frame[p]).key, result |-> frame'[p].log[frame[p].call.logIx].data,
                timestamp |-> now]}
         /\ \A e \in resultCache : e.key # Cur(frame[p]).key => e \in resultCache'
         /\ \A e \in resultCache' : e.key # Cur(frame[p]).key => e \in resultCache
    /\ Settles(p, FALSE) => resultCache' = resultCache
    /\ (Settles(p, TRUE) \/ Settles(p, FALSE)) =>
         \A q \in Procs \ {p} : frame'[q] = frame[q]

\* C22. Concurrent cache access: with several routeTask calls in flight and
\* interleaving at their channel awaits, the value cached for a key is the
\* whole data of one successful channel invocation for that key, the last
\* one to settle: a successful settle replaces the key's entry by its own
\* data and completion time and touches no other key, a failed settle
\* leaves the cache as it was, and a settle changes no other process's call.
C22_ConcurrentCache == [](C22_Value) /\ [][C22_Overwrite]_vars

\* two code_generation requests with the same payload both missed the
\* cache for their first step and both invoked the channel, which resolved
\* with different data; the cache holds the data of the one that settled
\* last
C22_Witness ==
  /\ config.result_caching /\ now = 0
  /\ \E p \in Procs, q \in Procs :
       /\ p # q /\ Len(frame[p].log) >= 1 /\ Len(frame[q].log) >= 1
       /\ <<p, 1>> \in Writers(frame[p].log[1].key)
       /\ <<q, 1>> \in Writers(frame[p].log[1].key)
       /\ frame[p].log[1].data # frame[q].log[1].data
       /\ \E h \in settled :
            /\ h.key = frame[p].log[1].key /\ h.ok /\ h.data = frame[q].log[1].data
            /\ \E e \in resultCache : e.key = h.key /\ e.result = h.data

\* the run is between its first call and its return
Running(f) == KnownRun(f) /\ f.pc \in {"await", "catch", "resume"}

\* the entries of workflowStates under the run's id
OwnState(f) == {x \in workflowStates : x.id = f.wf.id}

Routed(f) == f.kind \in RouteKinds

\* the routeTask call found the rule to match
Matched(f) == f.rule # 0

\* the task supplies the optional string field
Supplied(v) == v \notin {"undefined", ""}

TypeOk(c, t) == c.task_type.present => t.task_type \in c.task_type.vals

ComplexityOk(c, t) ==
  (c.complexity.present /\ Supplied(t.complexity)) => t.complexity \in c.complexity.vals

TargetOk(c, t) ==
  (c.target.present /\ Supplied(t.target)) => t.target \in c.target.vals

\* C24. Rule matching with absent task fields: a rule matches only if its
\* declared task_type contains the task's type and its declared complexity
\* and target contain the task's complexity and target where the task
\* supplies them; apart from context_required nothing else decides, so a
\* constraint on complexity or target never mismatches a task that supplies
\* none, and a field the condition leaves unset always matches.
C24_AbsentFields ==
  \A p \in Procs :
    LET f == frame[p]
        c == Rules[1].condition
        t == f.task
    IN Routed(f) =>
         /\ Matched(f) => TypeOk(c, t) /\ ComplexityOk(c, t) /\ TargetOk(c, t)
         /\ c.context_required = "undefined" =>
              (Matched(f) <=> TypeOk(c, t) /\ ComplexityOk(c, t) /\ TargetOk(c, t))
         /\ (~Supplied(t.complexity) /\ ~Supplied(t.target)
              /\ c.context_required = "undefined") =>
              (Matched(f) <=> TypeOk(c, t))

\* a rule declaring task_type, complexity and target matched a research
\* task that supplies neither complexity nor target, and its call returned
C24_Witness ==
  \E p \in Procs :
    LET f == frame[p]
        c == Rules[1].condition
    IN /\ Routed(f) /\ Matched(f) /\ f.pc = "done"
       /\ c.task_type.present /\ c.complexity.present /\ c.target.present
       /\ f.task.complexity = "undefined" /\ f.task.target = "undefined"

\* C25. context_required matching: a rule that declares context_required
\* matches only a task whose flag is exactly its value, an absent flag being
\* neither true nor false; a rule that does not declare it accepts any flag.
C25_ContextRequired ==
  \A p \in Procs :
    LET f == frame[p]
        c == Rules[1].condition
        t == f.task
        others == TypeOk(c, t) /\ ComplexityOk(c, t) /\ TargetOk(c, t)
    IN Routed(f) =>
         /\ (c.context_required # "undefined" /\ Matched(f)) =>
              t.context_required = c.context_required
         /\ (c.context_required = "false" /\ t.context_required = "undefined") =>
              ~Matched(f)
         /\ (c.context_required = "true" /\ t.context_required = "undefined") =>
              ~Matched(f)
         /\ (others /\ c.context_required \in {"undefined", t.context_required}) =>
              Matched(f)

\* a rule whose only constraint is context_required = false was tried
\* against a task without the flag and did not match: no routing rule found
C25_Witness ==
  \E p \in Procs :
    LET f == frame[p]
        c == Rules[1].condition
    IN /\ Routed(f) /\ ~Matched(f) /\ f.pc = "done"
       /\ c = Condition(Unset, Unset, "false", Unset)
       /\ f.task.context_required = "undefined"
       /\ f.out.result.error = "No routing rule found"

\* ----------------------------------------------------- sequence payload claims
\* the frame holds a routeTask call served by a sequence
InSequence(f) == f.kind = "sequence"

SequenceOf(f) == Rules[f.rule].sequence

\* the caller's payload with the data of every step before step k that has
\* pass_result_to_next merged in, in step order; nothing else
RECURSIVE Merged(_, _)
Merged(f, k) ==
  IF k <= 1 THEN f.input
  ELSE IF SequenceOf(f)[k - 1].pass_result_to_next /\ f.log[k - 1].data[1] = "obj"
  THEN Spread(Merged(f, k - 1), f.log[k - 1].data[2])
  ELSE Merged(f, k - 1)

\* what step k is called with when nothing is injected
Uninjected(f, k) == Spread(Merged(f, k), SequenceOf(f)[k].params)

\* the two payloads agree on the field
SameField(a, b, key) == (Has(a, key) <=> Has(b, key)) /\ Get(a, key) = Get(b, key)

\* C26. Sequence pass_result_to_next is cumulative: apart from
\* previousResult, the payload of every step of a sequence is the caller's
\* payload with the data of all earlier steps that have the flag merged in,
\* in order (a later merge overriding an earlier one), and the step's own
\* params on top; a step without the flag contributes nothing.
C26_CumulativeMerge ==
  \A p \in Procs :
    LET f == frame[p] IN
      InSequence(f) =>
        \A k \in 1..Len(f.log) :
          /\ f.log[k].step = k
          /\ \A key \in (KeysOf(f.log[k].payload) \cup KeysOf(Uninjected(f, k)))
                        \ {"previousResult"} :
               SameField(f.log[k].payload, Uninjected(f, k), key)

\* the third step, two steps after the step that returned an id with
\* pass_result_to_next, was called with that id in place of the caller's;
\* the fourth with the id of its own params
C26_Witness ==
  \E p \in Procs :
    LET f == frame[p] IN
      /\ InSequence(f) /\ Len(f.log) = 4
      /\ Get(f.input, "id") = Str("own")
      /\ f.log[1].data = Obj(<< <<"id", Str("ISS-1")>> >>)
      /\ f.log[2].data = Null
      /\ Get(f.log[2].payload, "id") = Str("ISS-1")
      /\ Get(f.log[3].payload, "id") = Str("ISS-1")
      /\ Get(f.log[4].payload, "id") = Str("fixed")

\* C27. Sequence use_previous_result: a step after the first that has the
\* flag is called with previousResult equal to the data the step before it
\* returned; the first step has nothing injected even with the flag set,
\* its previousResult is what the caller's payload and its params carry.
C27_PreviousResult ==
  \A p \in Procs :
    LET f == frame[p] IN
      InSequence(f) =>
        \A k \in 1..Len(f.log) :
          SequenceOf(f)[k].use_previous_result =>
            IF k > 1
            THEN /\ Has(f.log[k].payload, "previousResult")
                 /\ Get(f.log[k].payload, "previousResult") = f.log[k - 1].data
                 /\ f.log[k - 1].finished /\ f.log[k - 1].success
            ELSE f.log[k].payload = Spread(f.input, SequenceOf(f)[k].params)

\* the fourth step was called with the data of the third as previousResult,
\* which differs from the data of the first and of the second step; the
\* first step, flag set, got the payload of a caller that passed none
C27_Witness ==
  \E p \in Procs :
    LET f == frame[p] IN
      /\ InSequence(f) /\ Len(f.log) = 4
      /\ ~Has(f.input, "previousResult")
      /\ ~Has(f.log[1].payload, "previousResult")
      /\ f.log[1].data = Null /\ f.log[2].data = Null
      /\ Get(f.log[4].payload, "previousResult") = f.log[3].data
      /\ f.log[3].data # Null

\* C28. No previousResult without the flag: a step whose use_previous_result
\* flag is not set is called with the previousResult that the caller's
\* payload, the merged results and its own params carry, and with none when
\* they carry none.
C28_NoLeftover ==
  \A p \in Procs :
    LET f == frame[p] IN
      InSequence(f) =>
        \A k \in 1..Len(f.log) :
          ~SequenceOf(f)[k].use_previous_result =>
            SameField(f.log[k].payload, Uninjected(f, k), "previousResult")

\* ----------------------------------------------------- step condition claims
\* the condition vocabulary: what each recognized name asks of a payload;
\* any other name asks nothing
Asks(name, payload) ==
  IF name = "library_needed"
  THEN Truthy(Get(payload, "library")) \/ Truthy(Get(payload, "dependencies"))
  ELSE IF name = "context_needed"
  THEN Truthy(Get(payload, "codebase")) \/ Truthy(Get(payload, "repository"))
  ELSE IF name = "library_research_needed"
  THEN Truthy(Get(payload, "library_research")) \/ Truthy(Get(payload, "api_docs"))
  ELSE TRUE

\* the declared steps the run's loop has reached
Reached(f) == {j \in 1..Len(StepsOf(f)) : j <= f.wf.i}

\* C29. Condition evaluation reads only the incoming payload: a declared
\* step the run has reached was called exactly when it has no condition or
\* the caller's payload satisfies what its condition name asks, whatever the
\* earlier steps returned and whatever the step's params add; a name outside
\* library_needed, context_needed and library_research_needed asks nothing;
\* the payload the conditions are evaluated on stays the caller's.
C29_ConditionInputs ==
  \A p \in Procs :
    LET f == frame[p] IN
      KnownRun(f) =>
        /\ f.wf.payload = f.input
        /\ \A j \in Reached(f) :
             LET step == StepsOf(f)[j]
             IN (\E k \in 1..Len(f.log) : f.log[k].step = j) <=>
                  (step.condition = "" \/ Asks(step.condition, f.input))
        /\ \A j \in Reached(f) :
             StepsOf(f)[j].condition \notin
                 {"", "library_needed", "context_needed", "library_research_needed"} =>
               \E k \in 1..Len(f.log) : f.log[k].step = j

\* bug_fix_workflow on a payload without codebase or repository returned
\* after four calls: get_context, whose params carry a repository, was
\* skipped although analyze and create_issue had returned data
C29_Witness ==
  \E p \in Procs :
    LET f == frame[p] IN
      /\ KnownRun(f) /\ f.wf.name = "bug_fix_workflow" /\ f.pc = "done"
      /\ ~Truthy(Get(f.input, "codebase")) /\ ~Truthy(Get(f.input, "repository"))
      /\ Truthy(Get(StepsOf(f)[3].params, "repository"))
      /\ Len(f.log) = 4
      /\ \A k \in 1..4 : f.log[k].step # 3
      /\ Truthy(f.log[1].data) /\ Truthy(f.log[2].data)

\* ---------------------------------------------------------- termination claim
\* the entry-point call is between its start and its return
Pending(f) == f.pc \in {"await", "catch", "resume"}

\* the logged calls made for step j (0 for a single-call rule)
Attempts(f, j) == {k \in 1..Len(f.log) : f.log[k].step = j}

C30_Attempts ==
  \A p \in Procs :
    LET f == frame[p] IN
      /\ f.kind = "single" =>
           /\ Len(f.log) <= 2
           /\ Len(f.log) = 2 =>
                /\ f.log[1].outcome = "threw" /\ f.log[1].fallback
                /\ f.log[2].nested /\ ~f.log[2].fallback
      /\ f.kind = "sequence" =>
           /\ Len(f.log) <= Len(Rules[f.rule].sequence)
           /\ \A j \in 1..Len(Rules[f.rule].sequence) :
                Cardinality(Attempts(f, j)) <= 1
      /\ KnownRun(f) =>
           /\ Len(f.log) <= Len(StepsOf(f))
           /\ \A j \in 1..Len(StepsOf(f)) : Cardinality(Attempts(f, j)) <= 1
      /\ UnknownRun(f) => Len(f.log) = 0 /\ f.pc = "done"

C30_Returns ==
  (\E p \in Procs : Pending(frame[p])) ~> (\A p \in Procs : frame[p].pc = "done")

\* C30. Termination: when the channel settles every invocation, every
\* routeTask and executeWorkflow call returns, after at most two calls for a
\* single-call rule (the primary and, once it threw, one fallback), at most
\* one call per sequence step and at most one per declared workflow step;
\* an unknown workflow returns without any call.
C30_Termination == [](C30_Attempts) /\ C30_Returns

\* a single-call rule returned after two calls: the primary threw and its
\* fallback invoked the channel, which rejected
C30_Witness ==
  \E p \in Procs :
    LET f == frame[p] IN
      /\ f.kind = "single" /\ f.pc = "done" /\ Len(f.log) = 2
      /\ f.log[1].outcome = "threw"
      /\ f.log[2].outcome = "invoked" /\ f.log[2].finished /\ ~f.log[2].success
      /\ ~f.out.success

====
